---- MODULE Spec2Model ----
(***************************************************************************)
(* Model of the Mello phone agent (src/phone-agent): the HumeEVIHandler    *)
(* bridge of bot.py, the run_bot coroutine with its three tasks, and the   *)
(* call registry and shutdown path of server.py.                           *)
(*                                                                         *)
(* The program runs on one asyncio event loop: code between two awaits is  *)
(* atomic, so every action below is the code from one suspension point to  *)
(* the next.                                                               *)
(***************************************************************************)
EXTENDS Integers, Sequences, FiniteSets, TLC

\* ---------------------------------------------------------------- bounds
MaxCalls == 2
MaxEvents == 3
MaxFrames == 2
MaxApiCalls == 3
MaxEmotions == 4
MaxPairEvents == 1

Calls == 1..MaxCalls
\* the call that the single-call specifications follow
FirstCall == CHOOSE c \in Calls : \A d \in Calls : c <= d
\* the handler that SpecApi drives
ApiBridge == FirstCall

TaskOrder == <<"hume_messages", "wa_to_hume", "hume_to_wa">>
TaskNames == {"hume_messages", "wa_to_hume", "hume_to_wa"}

MessageTypes == {"chat_metadata", "user_message", "assistant_message",
                 "audio_output", "user_interruption", "error"}

VARIABLES
    \* HumeEVIHandler fields, one handler per call
    socket,          \* "None" | "open" | "closed": None, a live session, a handle to a closed session
    running,         \* self._running
    output_queue,    \* self._output_queue
    \* what the handler did to its collaborators
    published,       \* number of socket.send_publish calls
    aexit_calls,     \* number of socket.__aexit__ calls
    disconnect_calls,\* number of disconnect() calls
    conn_state,      \* "NoBridge" | "Idle" | "Active" | "Disconnecting" | "Closed"
    enqueued,        \* every chunk put on the output queue, in order
    dequeued,        \* every chunk returned by get_output_audio, in order
    error_seen,      \* an "error" event was handled
    sessions_opened, \* number of sessions that chat.connect(...).__aenter__() returned
    disconnect_raised,\* an exception left disconnect()
    \* run_bot and its tasks
    rb_pc,           \* position of the run_bot task
    rb_idx,          \* index in `for task in tasks` while run_bot awaits a task
    rb_cancel,       \* task.cancel() was called on the run_bot task, not yet delivered
    task_pc,         \* position of each of the three tasks
    disconnected,    \* the asyncio.Event `disconnected`
    webrtc,          \* the media connection: "none" | "connected" | "client_gone" | "disconnected"
    transport_out,   \* chunks handed to transport.send_audio, in order
    connect_failed,  \* hume.connect() raised
    \* server.py
    active_calls,    \* the keys of the active_calls dict
    cb_ran,          \* cleanup_call ran for the call
    removals,        \* number of times the call's entry was removed from active_calls
    shutdown,        \* lifespan: "serving" | "terminating" | "complete"
    shutdown_calls,  \* the calls lifespan cancelled
    \* environment
    n_events,        \* events the remote session delivered
    n_frames,        \* frames the media transport delivered
    \* direct use of one handler
    api_pc,          \* "ready" | "in_connect" | "in_disconnect"
    api_calls,       \* number of method calls made
    api_result,      \* what the last get_output_audio call returned: "no_call" | "chunk" | "None"
    api_event,       \* the last message the client passed to _handle_message
    emotion_scores,  \* dict(message.models.prosody.scores): the scores in iteration order
    top_emotions,    \* the top emotions computed from emotion_scores, and by which code
    impl,            \* the class of the handler: "bot" (HumeEVIHandler) | "bot_hume_evi" (HumeEVIBot)
    last_send        \* the last send_audio call: conn_state at the call, what it published, whether it raised

bridgeVars == <<socket, running, output_queue, published, aexit_calls,
                disconnect_calls, conn_state, enqueued, dequeued, error_seen,
                last_send, sessions_opened, disconnect_raised>>
taskVars == <<rb_pc, rb_idx, rb_cancel, task_pc, disconnected, webrtc,
              transport_out, connect_failed>>
serverVars == <<active_calls, cb_ran, removals, shutdown, shutdown_calls>>
envVars == <<n_events, n_frames>>
emotionVars == <<emotion_scores, top_emotions>>
apiVars == <<api_pc, api_calls, api_result, api_event, impl, emotionVars, emotionVars>>

vars == <<bridgeVars, taskVars, serverVars, envVars, apiVars>>

\* ------------------------------------------------------------ base64
\* bytes are a sequence of octets; the encoded text carries a marker so that
\* text and bytes are different values
b64encode(bytes) == <<"b64">> \o bytes
b64decode(text) == IF text = <<>> THEN <<>> ELSE Tail(text)

\* ------------------------------------------------------ top emotions
\* A dict of prosody scores is the sequence of its scores in iteration
\* order; the i-th key is EmotionNames[i]. Scores are in thousandths.
EmotionNames == <<"joy", "calm", "anger", "sadness", "fear", "surprise">>
ScoreValues == {100, 300, 304, 400, 900}
ProsodyScores == UNION {[1..n -> ScoreValues] : n \in 0..MaxEmotions}

\* scores.items()
items(scores) ==
    [i \in 1..Len(scores) |-> [name |-> EmotionNames[i], score |-> scores[i]]]

\* sorted by score, highest first, that puts the later of two equal items first
sorted_by_score_ties_reversed(its) ==
    LET n == Len(its)
        rank(i) == 1 + Cardinality({j \in 1..n :
                          \/ its[j].score > its[i].score
                          \/ its[j].score = its[i].score /\ j > i})
    IN [k \in 1..n |-> its[CHOOSE i \in 1..n : rank(i) = k]]

\* sorted(its, key=lambda x: x[1], reverse=True): Python's sort is stable,
\* and reverse=True keeps the original order of items with equal keys
sorted_by_score(its) ==
    LET n == Len(its)
        rank(i) == 1 + Cardinality({j \in 1..n :
                          \/ its[j].score > its[i].score
                          \/ its[j].score = its[i].score /\ j < i})
    IN [k \in 1..n |-> its[CHOOSE i \in 1..n : rank(i) = k]]

\* seq[:n]
slice_to(seq, n) == SubSeq(seq, 1, IF Len(seq) < n THEN Len(seq) ELSE n)

\* round(score, 2) of a score given in thousandths; ScoreValues holds no
\* score that lies halfway between two hundredths
round2(score) == ((score + 5) \div 10) * 10

\* the `top` of the user_message branch of HumeEVIHandler._handle_message
top_of_user_message(scores) == slice_to(sorted_by_score(items(scores)), 3)

\* extract_top_emotions(emotion_scores, n) of bot_hume_evi.py; the returned
\* dict is the sequence of its items in insertion order
extract_top_emotions(scores, n) ==
    IF scores = <<>>
    THEN <<>>
    ELSE LET sorted_emotions == sorted_by_score(items(scores))
             top == slice_to(sorted_emotions, n)
         IN [k \in 1..Len(top) |->
                [name |-> top[k].name, score |-> round2(top[k].score)]]

\* -------------------------------------------------- HumeEVIHandler

\* connect(), from the return of the awaited handshake to the end
connect(c) ==
    /\ socket' = [socket EXCEPT ![c] = "open"]
    /\ running' = [running EXCEPT ![c] = TRUE]
    /\ conn_state' = [conn_state EXCEPT ![c] = "Active"]
    /\ sessions_opened' = [sessions_opened EXCEPT ![c] = @ + 1]
    /\ UNCHANGED <<output_queue, published, aexit_calls, disconnect_calls,
                   enqueued, dequeued, error_seen, last_send, disconnect_raised>>

\* disconnect(), from its start to the await of socket.__aexit__; without a
\* socket it runs to its end
disconnect_enter(c) ==
    /\ running' = [running EXCEPT ![c] = FALSE]
    /\ disconnect_calls' = [disconnect_calls EXCEPT ![c] = @ + 1]
    /\ aexit_calls' = [aexit_calls EXCEPT ![c] =
                          IF socket[c] # "None" THEN @ + 1 ELSE @]
    /\ conn_state' = [conn_state EXCEPT ![c] =
                          IF socket[c] # "None" THEN "Disconnecting" ELSE "Closed"]
    /\ UNCHANGED <<socket, output_queue, published, enqueued, dequeued,
                   error_seen, last_send, sessions_opened, disconnect_raised>>

\* disconnect(), from the return of socket.__aexit__ to the end.
\* HumeEVIHandler (bot.py) swallows an exception of __aexit__; HumeEVIBot
\* (bot_hume_evi.py) has no try around the await and lets it out.
disconnect_exit(c, raised) ==
    /\ socket' = [socket EXCEPT ![c] = IF raised THEN @ ELSE "closed"]
    /\ conn_state' = [conn_state EXCEPT ![c] = "Closed"]
    /\ disconnect_raised' = [disconnect_raised EXCEPT ![c] =
                                @ \/ (raised /\ impl = "bot_hume_evi")]
    /\ UNCHANGED <<running, output_queue, published, aexit_calls,
                   disconnect_calls, enqueued, dequeued, error_seen, last_send,
                   sessions_opened>>

\* send_audio that tests the socket only and not _running
send_audio_socket_only(c, audio_data) ==
    /\ published' = [published EXCEPT ![c] =
                        IF socket[c] # "None" THEN @ + 1 ELSE @]
    /\ last_send' = [last_send EXCEPT ![c] =
                        [state |-> conn_state[c],
                         sent |-> IF socket[c] # "None"
                                  THEN <<b64encode(audio_data)>> ELSE <<>>,
                         raised |-> socket[c] = "closed"]]
    /\ UNCHANGED <<socket, running, output_queue, aexit_calls, disconnect_calls,
                   conn_state, enqueued, dequeued, error_seen, sessions_opened,
                   disconnect_raised>>

\* send_audio(audio_data); send_publish on a session that is closed raises
send_audio(c, audio_data) ==
    /\ published' = [published EXCEPT ![c] =
                        IF socket[c] # "None" /\ running[c] THEN @ + 1 ELSE @]
    /\ last_send' = [last_send EXCEPT ![c] =
                        [state |-> conn_state[c],
                         sent |-> IF socket[c] # "None" /\ running[c]
                                  THEN <<b64encode(audio_data)>> ELSE <<>>,
                         raised |-> socket[c] = "closed" /\ running[c]]]
    /\ UNCHANGED <<socket, running, output_queue, aexit_calls, disconnect_calls,
                   conn_state, enqueued, dequeued, error_seen, sessions_opened,
                   disconnect_raised>>

\* get_output_audio that takes the newest chunk instead of the oldest
get_output_audio_newest(c) ==
    IF output_queue[c] # <<>>
    THEN /\ output_queue' = [output_queue EXCEPT ![c] = SubSeq(@, 1, Len(@) - 1)]
         /\ dequeued' = [dequeued EXCEPT ![c] =
                            Append(@, output_queue[c][Len(output_queue[c])])]
         /\ UNCHANGED <<socket, running, published, aexit_calls, disconnect_calls,
                        conn_state, enqueued, error_seen, last_send,
                        sessions_opened, disconnect_raised>>
    ELSE UNCHANGED bridgeVars

\* get_output_audio that returns the oldest chunk and leaves it in the queue
get_output_audio_keeps_chunk(c) ==
    IF output_queue[c] # <<>>
    THEN /\ dequeued' = [dequeued EXCEPT ![c] = Append(@, Head(output_queue[c]))]
         /\ UNCHANGED <<socket, running, output_queue, published, aexit_calls,
                        disconnect_calls, conn_state, enqueued, error_seen,
                        last_send, sessions_opened, disconnect_raised>>
    ELSE UNCHANGED bridgeVars

\* get_output_audio(): wait_for(queue.get()) returns the oldest chunk of a
\* queue that holds one; on an empty queue the timeout fires and the method
\* returns None
get_output_audio(c) ==
    IF output_queue[c] # <<>>
    THEN /\ output_queue' = [output_queue EXCEPT ![c] = Tail(@)]
         /\ dequeued' = [dequeued EXCEPT ![c] = Append(@, Head(output_queue[c]))]
         /\ UNCHANGED <<socket, running, published, aexit_calls, disconnect_calls,
                        conn_state, enqueued, error_seen, last_send,
                        sessions_opened, disconnect_raised>>
    ELSE UNCHANGED bridgeVars

\* _handle_message that empties the output queue on a user_interruption
handle_message_interruption_flushes(c, message) ==
    /\ IF message.type = "audio_output" /\ message.data # <<>>
       THEN /\ output_queue' = [output_queue EXCEPT ![c] =
                                   Append(@, b64decode(message.data))]
            /\ enqueued' = [enqueued EXCEPT ![c] =
                               Append(@, b64decode(message.data))]
       ELSE /\ output_queue' = [output_queue EXCEPT ![c] =
                                   IF message.type = "user_interruption"
                                   THEN <<>> ELSE @]
            /\ UNCHANGED enqueued
    /\ error_seen' = [error_seen EXCEPT ![c] = @ \/ message.type = "error"]
    /\ UNCHANGED <<socket, running, published, aexit_calls, disconnect_calls,
                   conn_state, dequeued, last_send, sessions_opened,
                   disconnect_raised>>

\* _handle_message(message)
handle_message(c, message) ==
    /\ IF message.type = "audio_output" /\ message.data # <<>>
       THEN /\ output_queue' = [output_queue EXCEPT ![c] =
                                   Append(@, b64decode(message.data))]
            /\ enqueued' = [enqueued EXCEPT ![c] =
                               Append(@, b64decode(message.data))]
       ELSE UNCHANGED <<output_queue, enqueued>>
    /\ error_seen' = [error_seen EXCEPT ![c] = @ \/ message.type = "error"]
    /\ UNCHANGED <<socket, running, published, aexit_calls, disconnect_calls,
                   conn_state, dequeued, last_send, sessions_opened,
                   disconnect_raised>>

\* the events the remote session can deliver as its next event
Messages(c) ==
    {[type |-> t, data |-> <<>>] : t \in MessageTypes}
    \cup {[type |-> "audio_output", data |-> b64encode(<<Len(enqueued[c]) + 1>>)]}

\* ------------------------------------------- direct use of one handler
\* A client drives one HumeEVIHandler through its methods: the owner calls
\* connect() and disconnect() one after the other, while send_audio,
\* get_output_audio and _handle_message are called at any moment, also while
\* the owner is suspended inside connect() or disconnect().

ApiConnectCall ==
    /\ api_pc = "ready"
    /\ api_calls < MaxApiCalls
    /\ api_pc' = "in_connect"
    /\ api_calls' = api_calls + 1
    /\ UNCHANGED <<api_result, api_event, impl, emotionVars, bridgeVars, taskVars, serverVars, envVars>>

ApiConnectReturn ==
    /\ api_pc = "in_connect"
    /\ connect(ApiBridge)
    /\ api_pc' = "ready"
    /\ UNCHANGED <<api_calls, api_result, api_event, impl, emotionVars, taskVars, serverVars, envVars>>

ApiConnectRaise ==
    /\ api_pc = "in_connect"
    /\ api_pc' = "ready"
    /\ UNCHANGED <<api_calls, api_result, api_event, impl, emotionVars, bridgeVars, taskVars, serverVars,
                   envVars>>

ApiDisconnectCall ==
    /\ api_pc = "ready"
    /\ api_calls < MaxApiCalls
    /\ disconnect_enter(ApiBridge)
    /\ api_pc' = IF socket[ApiBridge] # "None" THEN "in_disconnect" ELSE "ready"
    /\ api_calls' = api_calls + 1
    /\ UNCHANGED <<api_result, api_event, impl, emotionVars, taskVars, serverVars, envVars>>

ApiDisconnectReturn ==
    /\ api_pc = "in_disconnect"
    /\ \E raised \in BOOLEAN : disconnect_exit(ApiBridge, raised)
    /\ api_pc' = "ready"
    /\ UNCHANGED <<api_calls, api_result, api_event, impl, emotionVars, taskVars, serverVars, envVars>>

ApiSendAudio ==
    /\ n_frames[ApiBridge] < MaxFrames
    /\ send_audio(ApiBridge, <<n_frames[ApiBridge] + 1>>)
    /\ n_frames' = [n_frames EXCEPT ![ApiBridge] = @ + 1]
    /\ UNCHANGED <<n_events, apiVars, taskVars, serverVars>>

ApiGetOutputAudio ==
    /\ get_output_audio(ApiBridge)
    /\ api_result' = IF output_queue[ApiBridge] # <<>> THEN "chunk" ELSE "None"
    /\ UNCHANGED <<api_pc, api_calls, api_event, impl, emotionVars, taskVars, serverVars,
                   envVars>>

ApiHandleMessage ==
    /\ n_events[ApiBridge] < MaxEvents
    /\ \E m \in Messages(ApiBridge) :
          /\ handle_message(ApiBridge, m)
          /\ api_event' = m
    /\ n_events' = [n_events EXCEPT ![ApiBridge] = @ + 1]
    /\ UNCHANGED <<n_frames, api_pc, api_calls, api_result, impl, emotionVars, taskVars,
                   serverVars>>

\* everything but conn_state at process start
InitFields ==
    /\ socket = [c \in Calls |-> "None"]
    /\ running = [c \in Calls |-> FALSE]
    /\ output_queue = [c \in Calls |-> <<>>]
    /\ published = [c \in Calls |-> 0]
    /\ aexit_calls = [c \in Calls |-> 0]
    /\ disconnect_calls = [c \in Calls |-> 0]
    /\ enqueued = [c \in Calls |-> <<>>]
    /\ dequeued = [c \in Calls |-> <<>>]
    /\ error_seen = [c \in Calls |-> FALSE]
    /\ last_send = [c \in Calls |-> [state |-> "NoBridge", sent |-> <<>>, raised |-> FALSE]]
    /\ rb_pc = [c \in Calls |-> "unborn"]
    /\ rb_idx = [c \in Calls |-> 0]
    /\ rb_cancel = [c \in Calls |-> FALSE]
    /\ task_pc = [c \in Calls |-> [t \in TaskNames |-> "none"]]
    /\ disconnected = [c \in Calls |-> FALSE]
    /\ webrtc = [c \in Calls |-> "none"]
    /\ transport_out = [c \in Calls |-> <<>>]
    /\ connect_failed = [c \in Calls |-> FALSE]
    /\ active_calls = {}
    /\ cb_ran = [c \in Calls |-> FALSE]
    /\ removals = [c \in Calls |-> 0]
    /\ shutdown = "serving"
    /\ shutdown_calls = {}
    /\ n_events = [c \in Calls |-> 0]
    /\ n_frames = [c \in Calls |-> 0]
    /\ sessions_opened = [c \in Calls |-> 0]
    /\ disconnect_raised = [c \in Calls |-> FALSE]
    /\ api_pc = "ready"
    /\ api_calls = 0
    /\ api_result = "no_call"
    /\ api_event = [type |-> "no_event", data |-> <<>>]

\* __init__ has run for one handler of either class; nothing else exists
\* no user_message with prosody scores is looked at
InitNoEmotions ==
    /\ emotion_scores = <<>>
    /\ top_emotions = [by |-> "none", top |-> <<>>]

InitApi ==
    /\ InitFields
    /\ InitNoEmotions
    /\ impl \in {"bot", "bot_hume_evi"}
    /\ conn_state = [c \in Calls |-> IF c = ApiBridge THEN "Idle" ELSE "NoBridge"]

NextApi ==
    \/ ApiConnectCall
    \/ ApiConnectReturn
    \/ ApiConnectRaise
    \/ ApiDisconnectCall
    \/ ApiDisconnectReturn
    \/ ApiSendAudio
    \/ ApiGetOutputAudio
    \/ ApiHandleMessage

SpecApi == InitApi /\ [][NextApi]_vars

\* ------------------------------------- the top emotions of one message
\* One user_message with prosody scores arrives at a handler of either
\* class, which computes the emotions it logs.

InitEmotions ==
    /\ InitFields
    /\ impl \in {"bot", "bot_hume_evi"}
    /\ conn_state = [c \in Calls |-> IF c = ApiBridge THEN "Idle" ELSE "NoBridge"]
    /\ emotion_scores \in ProsodyScores
    /\ top_emotions = [by |-> "none", top |-> <<>>]

\* HumeEVIHandler._handle_message, user_message branch with truthy scores
UserMessageEmotions ==
    /\ impl = "bot"
    /\ top_emotions.by = "none"
    /\ emotion_scores # <<>>
    /\ top_emotions' = [by |-> "handle_message",
                        top |-> top_of_user_message(emotion_scores)]
    /\ UNCHANGED <<emotion_scores, api_pc, api_calls, api_result, api_event, impl>>
    /\ UNCHANGED <<bridgeVars, taskVars, serverVars, envVars>>

\* a call of extract_top_emotions with the default n
ExtractTopEmotions ==
    /\ impl = "bot_hume_evi"
    /\ top_emotions.by = "none"
    /\ top_emotions' = [by |-> "extract_top_emotions",
                        top |-> extract_top_emotions(emotion_scores, 3)]
    /\ UNCHANGED <<emotion_scores, api_pc, api_calls, api_result, api_event, impl>>
    /\ UNCHANGED <<bridgeVars, taskVars, serverVars, envVars>>

NextEmotions ==
    \/ UserMessageEmotions
    \/ ExtractTopEmotions

SpecEmotions == InitEmotions /\ [][NextEmotions]_vars

\* ------------------------------------------------------------ run_bot

\* server.py imports run_bot from bot.py
Init ==
    /\ InitFields
    /\ InitNoEmotions
    /\ impl = "bot"
    /\ conn_state = [c \in Calls |-> "NoBridge"]

TaskDone(c, i) == task_pc[c][TaskOrder[i]] = "done"

\* the first task from index i on that `await task` has to wait for; 4: none
FirstLive(c, i) ==
    IF \E j \in i..3 : ~TaskDone(c, j)
    THEN CHOOSE j \in i..3 : ~TaskDone(c, j) /\ \A k \in i..(j - 1) : TaskDone(c, k)
    ELSE 4

\* `for task in tasks: task.cancel(); await task` from index i on, up to the
\* first task that is not done yet, and the `finally` clause when the loop ends
cancel_tasks(c, i) ==
    LET j == FirstLive(c, i) IN
    IF j <= 3
    THEN /\ task_pc' = [task_pc EXCEPT ![c][TaskOrder[j]] = "cancelled"]
         /\ rb_pc' = [rb_pc EXCEPT ![c] = "await_task"]
         /\ rb_idx' = [rb_idx EXCEPT ![c] = j]
         /\ UNCHANGED bridgeVars
    ELSE /\ disconnect_enter(c)
         /\ rb_pc' = [rb_pc EXCEPT ![c] =
                         IF socket[c] # "None" THEN "disconnecting" ELSE "done"]
         /\ rb_idx' = [rb_idx EXCEPT ![c] = 0]
         /\ UNCHANGED task_pc

\* run_bot that creates its three tasks before `await hume.connect()`
RunBotStart_tasks_first(c) ==
    /\ rb_pc[c] = "created"
    /\ ~rb_cancel[c]
    /\ \E credentials \in BOOLEAN :
          IF credentials
          THEN /\ rb_pc' = [rb_pc EXCEPT ![c] = "connecting"]
               /\ conn_state' = [conn_state EXCEPT ![c] = "Idle"]
               /\ task_pc' = [task_pc EXCEPT ![c] = [t \in TaskNames |-> "wait"]]
          ELSE /\ rb_pc' = [rb_pc EXCEPT ![c] = "done"]
               /\ UNCHANGED <<conn_state, task_pc>>
    /\ UNCHANGED <<socket, running, output_queue, published, aexit_calls,
                   disconnect_calls, enqueued, dequeued, error_seen, last_send,
                   sessions_opened, disconnect_raised>>
    /\ UNCHANGED <<rb_idx, rb_cancel, disconnected, webrtc,
                   transport_out, connect_failed>>
    /\ UNCHANGED <<serverVars, envVars, apiVars>>

\* run_bot from its start to `await hume.connect()`
RunBotStart(c) ==
    /\ rb_pc[c] = "created"
    /\ ~rb_cancel[c]
    /\ \E credentials \in BOOLEAN :
          IF credentials
          THEN /\ rb_pc' = [rb_pc EXCEPT ![c] = "connecting"]
               /\ conn_state' = [conn_state EXCEPT ![c] = "Idle"]
          ELSE /\ rb_pc' = [rb_pc EXCEPT ![c] = "done"]
               /\ UNCHANGED conn_state
    /\ UNCHANGED <<socket, running, output_queue, published, aexit_calls,
                   disconnect_calls, enqueued, dequeued, error_seen, last_send,
                   sessions_opened, disconnect_raised>>
    /\ UNCHANGED <<rb_idx, rb_cancel, task_pc, disconnected, webrtc,
                   transport_out, connect_failed>>
    /\ UNCHANGED <<serverVars, envVars, apiVars>>

\* hume.connect() returns: handlers registered, the three tasks created,
\* run_bot suspends in disconnected.wait()
RunBotConnected(c) ==
    /\ rb_pc[c] = "connecting"
    /\ ~rb_cancel[c]
    /\ connect(c)
    /\ task_pc' = [task_pc EXCEPT ![c] = [t \in TaskNames |-> "wait"]]
    /\ rb_pc' = [rb_pc EXCEPT ![c] = "waiting"]
    /\ UNCHANGED <<rb_idx, rb_cancel, disconnected, webrtc, transport_out,
                   connect_failed>>
    /\ UNCHANGED <<serverVars, envVars, apiVars>>

\* hume.connect() raises: `except Exception`, then `finally`
RunBotConnectFailed(c) ==
    /\ rb_pc[c] = "connecting"
    /\ ~rb_cancel[c]
    /\ disconnect_enter(c)
    /\ connect_failed' = [connect_failed EXCEPT ![c] = TRUE]
    /\ rb_pc' = [rb_pc EXCEPT ![c] = "done"]
    /\ UNCHANGED <<rb_idx, rb_cancel, task_pc, disconnected, webrtc, transport_out>>
    /\ UNCHANGED <<serverVars, envVars, apiVars>>

\* run_bot resumes from disconnected.wait() or from `await task`
RunBotCancelTasks(c) ==
    /\ ~rb_cancel[c]
    /\ \/ /\ rb_pc[c] = "waiting"
          /\ disconnected[c]
          /\ cancel_tasks(c, 1)
       \/ /\ rb_pc[c] = "await_task"
          /\ TaskDone(c, rb_idx[c])
          /\ cancel_tasks(c, rb_idx[c] + 1)
    /\ UNCHANGED <<rb_cancel, disconnected, webrtc, transport_out, connect_failed>>
    /\ UNCHANGED <<serverVars, envVars, apiVars>>

\* socket.__aexit__ returns or raises inside hume.disconnect(); run_bot ends
RunBotDisconnected(c) ==
    /\ rb_pc[c] = "disconnecting"
    /\ ~rb_cancel[c]
    /\ \E raised \in BOOLEAN : disconnect_exit(c, raised)
    /\ rb_pc' = [rb_pc EXCEPT ![c] = "done"]
    /\ UNCHANGED <<rb_idx, rb_cancel, task_pc, disconnected, webrtc,
                   transport_out, connect_failed>>
    /\ UNCHANGED <<serverVars, envVars, apiVars>>

\* RunBotCancelled with hume.disconnect() at the end of the `try` body instead
\* of in `finally`: a CancelledError that the loop does not catch skips it
RunBotCancelled_no_finally(c) ==
    /\ rb_cancel[c]
    /\ rb_cancel' = [rb_cancel EXCEPT ![c] = FALSE]
    /\ \/ /\ rb_pc[c] \in {"created", "connecting", "waiting", "disconnecting"}
          /\ rb_pc' = [rb_pc EXCEPT ![c] = "done"]
          /\ UNCHANGED <<bridgeVars, rb_idx, task_pc>>
       \/ /\ rb_pc[c] = "await_task"
          /\ UNCHANGED <<bridgeVars, rb_pc, rb_idx, task_pc>>
    /\ UNCHANGED <<disconnected, webrtc, transport_out, connect_failed>>
    /\ UNCHANGED <<serverVars, envVars, apiVars>>

\* CancelledError is thrown into run_bot at the await it is suspended in.
\* `except Exception` does not catch it. In `await task` the cancellation goes
\* to the awaited task, which run_bot has cancelled already, and what comes
\* back is caught by `except asyncio.CancelledError`: the loop goes on once
\* that task has ended.
RunBotCancelled(c) ==
    /\ rb_cancel[c]
    /\ rb_cancel' = [rb_cancel EXCEPT ![c] = FALSE]
    /\ \/ /\ rb_pc[c] = "created"
          /\ rb_pc' = [rb_pc EXCEPT ![c] = "done"]
          /\ UNCHANGED <<bridgeVars, rb_idx, task_pc>>
       \/ /\ rb_pc[c] \in {"connecting", "waiting"}
          /\ disconnect_enter(c)
          /\ rb_pc' = [rb_pc EXCEPT ![c] =
                          IF socket[c] # "None" THEN "disconnecting" ELSE "done"]
          /\ UNCHANGED <<rb_idx, task_pc>>
       \/ /\ rb_pc[c] = "await_task"
          /\ UNCHANGED <<bridgeVars, rb_pc, rb_idx, task_pc>>
       \/ /\ rb_pc[c] = "disconnecting"
          /\ rb_pc' = [rb_pc EXCEPT ![c] = "done"]
          /\ UNCHANGED <<bridgeVars, rb_idx, task_pc>>
    /\ UNCHANGED <<disconnected, webrtc, transport_out, connect_failed>>
    /\ UNCHANGED <<serverVars, envVars, apiVars>>

\* ------------------------------------------------------ the three tasks

\* process_messages: the session yields an event; _handle_message, then the
\* check of _running
ProcessMessage(c) ==
    /\ task_pc[c]["hume_messages"] = "wait"
    /\ socket[c] = "open"
    /\ n_events[c] < MaxEvents
    /\ \E m \in Messages(c) : handle_message(c, m)
    /\ n_events' = [n_events EXCEPT ![c] = @ + 1]
    /\ task_pc' = [task_pc EXCEPT ![c]["hume_messages"] =
                      IF running[c] THEN "wait" ELSE "done"]
    /\ UNCHANGED <<rb_pc, rb_idx, rb_cancel, disconnected, webrtc,
                   transport_out, connect_failed>>
    /\ UNCHANGED <<n_frames, serverVars, apiVars>>

\* process_messages that closes the session itself when the iteration ends
ProcessMessagesEnd_closes_session(c) ==
    /\ task_pc[c]["hume_messages"] = "wait"
    /\ socket[c] = "closed"
    /\ task_pc' = [task_pc EXCEPT ![c]["hume_messages"] = "done"]
    /\ aexit_calls' = [aexit_calls EXCEPT ![c] = @ + 1]
    /\ UNCHANGED <<rb_pc, rb_idx, rb_cancel, disconnected, webrtc,
                   transport_out, connect_failed>>
    /\ UNCHANGED <<socket, running, output_queue, published, disconnect_calls,
                   conn_state, enqueued, dequeued, error_seen, last_send,
                   sessions_opened, disconnect_raised>>
    /\ UNCHANGED <<serverVars, envVars, apiVars>>

\* process_messages: the iteration over a closed session ends or raises
ProcessMessagesEnd(c) ==
    /\ task_pc[c]["hume_messages"] = "wait"
    /\ socket[c] = "closed"
    /\ task_pc' = [task_pc EXCEPT ![c]["hume_messages"] = "done"]
    /\ UNCHANGED <<rb_pc, rb_idx, rb_cancel, disconnected, webrtc,
                   transport_out, connect_failed>>
    /\ UNCHANGED <<bridgeVars, serverVars, envVars, apiVars>>

\* _forward_whatsapp_to_hume: transport.input() yields a frame. send_publish
\* on a closed session raises, which ends the task.
ForwardWhatsappToHume(c) ==
    /\ task_pc[c]["wa_to_hume"] = "wait"
    /\ webrtc[c] = "connected"
    /\ n_frames[c] < MaxFrames
    /\ n_frames' = [n_frames EXCEPT ![c] = @ + 1]
    /\ \E has_audio \in BOOLEAN :
          IF has_audio
          THEN /\ send_audio(c, <<n_frames[c] + 1>>)
               /\ task_pc' = [task_pc EXCEPT ![c]["wa_to_hume"] =
                                 IF last_send'[c].raised THEN "done" ELSE "wait"]
          ELSE UNCHANGED <<bridgeVars, task_pc>>
    /\ UNCHANGED <<rb_pc, rb_idx, rb_cancel, disconnected, webrtc,
                   transport_out, connect_failed>>
    /\ UNCHANGED <<n_events, serverVars, apiVars>>

\* _forward_whatsapp_to_hume: transport.input() ends or raises once the
\* client is gone
ForwardWhatsappToHumeEnd(c) ==
    /\ task_pc[c]["wa_to_hume"] = "wait"
    /\ webrtc[c] = "client_gone"
    /\ task_pc' = [task_pc EXCEPT ![c]["wa_to_hume"] = "done"]
    /\ UNCHANGED <<rb_pc, rb_idx, rb_cancel, disconnected, webrtc,
                   transport_out, connect_failed>>
    /\ UNCHANGED <<bridgeVars, serverVars, envVars, apiVars>>

\* _forward_hume_to_whatsapp: get_output_audio returns a chunk, the chunk goes
\* to transport.send_audio, then the check of hume._running
ForwardHumeToWhatsapp(c) ==
    /\ task_pc[c]["hume_to_wa"] = "wait"
    /\ output_queue[c] # <<>>
    /\ get_output_audio(c)
    /\ transport_out' = [transport_out EXCEPT ![c] =
                            IF Head(output_queue[c]) # <<>>
                            THEN Append(@, Head(output_queue[c])) ELSE @]
    /\ task_pc' = [task_pc EXCEPT ![c]["hume_to_wa"] =
                      IF running[c] THEN "wait" ELSE "done"]
    /\ UNCHANGED <<rb_pc, rb_idx, rb_cancel, disconnected, webrtc, connect_failed>>
    /\ UNCHANGED <<serverVars, envVars, apiVars>>

\* _forward_hume_to_whatsapp that polls again after a timeout whatever the
\* value of hume._running
ForwardHumeToWhatsappTimeout_ignores_flag(c) ==
    /\ task_pc[c]["hume_to_wa"] = "wait"
    /\ output_queue[c] = <<>>
    /\ ~running[c]
    /\ get_output_audio(c)
    /\ UNCHANGED <<rb_pc, rb_idx, rb_cancel, task_pc, disconnected, webrtc,
                   transport_out, connect_failed>>
    /\ UNCHANGED <<serverVars, envVars, apiVars>>

\* _forward_hume_to_whatsapp: get_output_audio times out on an empty queue
\* and the pump finds hume._running cleared (with the flag set the pump is
\* back where it was: no step)
ForwardHumeToWhatsappTimeout(c) ==
    /\ task_pc[c]["hume_to_wa"] = "wait"
    /\ output_queue[c] = <<>>
    /\ ~running[c]
    /\ get_output_audio(c)
    /\ task_pc' = [task_pc EXCEPT ![c]["hume_to_wa"] = "done"]
    /\ UNCHANGED <<rb_pc, rb_idx, rb_cancel, disconnected, webrtc,
                   transport_out, connect_failed>>
    /\ UNCHANGED <<serverVars, envVars, apiVars>>

\* a task that catches CancelledError inside its loop and goes on
TaskCancelled_keeps_running(c, t) ==
    /\ task_pc[c][t] = "cancelled"
    /\ task_pc' = [task_pc EXCEPT ![c][t] = "wait"]
    /\ UNCHANGED <<rb_pc, rb_idx, rb_cancel, disconnected, webrtc,
                   transport_out, connect_failed>>
    /\ UNCHANGED <<bridgeVars, serverVars, envVars, apiVars>>

\* CancelledError reaches a task: each of the three catches it and returns
TaskCancelled(c, t) ==
    /\ task_pc[c][t] = "cancelled"
    /\ task_pc' = [task_pc EXCEPT ![c][t] = "done"]
    /\ UNCHANGED <<rb_pc, rb_idx, rb_cancel, disconnected, webrtc,
                   transport_out, connect_failed>>
    /\ UNCHANGED <<bridgeVars, serverVars, envVars, apiVars>>

\* ---------------------------------------------------------- environment

\* the WhatsApp caller leaves; on_disconnected runs if run_bot registered it
ClientDisconnects(c) ==
    /\ webrtc[c] = "connected"
    /\ webrtc' = [webrtc EXCEPT ![c] = "client_gone"]
    /\ disconnected' = [disconnected EXCEPT ![c] =
                           @ \/ task_pc[c]["hume_messages"] # "none"]
    /\ UNCHANGED <<rb_pc, rb_idx, rb_cancel, task_pc, transport_out, connect_failed>>
    /\ UNCHANGED <<bridgeVars, serverVars, envVars, apiVars>>

\* the remote side closes the session
RemoteCloses(c) ==
    /\ socket[c] = "open"
    /\ conn_state[c] = "Active"
    /\ socket' = [socket EXCEPT ![c] = "closed"]
    /\ UNCHANGED <<running, output_queue, published, aexit_calls,
                   disconnect_calls, conn_state, enqueued, dequeued, error_seen,
                   last_send, sessions_opened, disconnect_raised>>
    /\ UNCHANGED <<taskVars, serverVars, envVars, apiVars>>

\* ------------------------------------------------------------ server.py

\* handle_webhook.connection_callback for a new connection
connection_callback(c) ==
    /\ shutdown = "serving"
    /\ rb_pc[c] = "unborn"
    /\ rb_pc' = [rb_pc EXCEPT ![c] = "created"]
    /\ webrtc' = [webrtc EXCEPT ![c] = "connected"]
    /\ active_calls' = active_calls \cup {c}
    /\ UNCHANGED <<rb_idx, rb_cancel, task_pc, disconnected, transport_out,
                   connect_failed>>
    /\ UNCHANGED <<cb_ran, removals, shutdown, shutdown_calls>>
    /\ UNCHANGED <<bridgeVars, envVars, apiVars>>

\* cleanup_call that logs the end of the call and leaves the entry in place
cleanup_call_keeps_entry(c) ==
    /\ rb_pc[c] = "done"
    /\ ~cb_ran[c]
    /\ cb_ran' = [cb_ran EXCEPT ![c] = TRUE]
    /\ UNCHANGED <<active_calls, removals, shutdown, shutdown_calls>>
    /\ UNCHANGED <<bridgeVars, taskVars, envVars, apiVars>>

\* cleanup_call that empties the registry
cleanup_call_clears_registry(c) ==
    /\ rb_pc[c] = "done"
    /\ ~cb_ran[c]
    /\ cb_ran' = [cb_ran EXCEPT ![c] = TRUE]
    /\ active_calls' = {}
    /\ removals' = [d \in Calls |-> IF d \in active_calls
                                     THEN removals[d] + 1 ELSE removals[d]]
    /\ UNCHANGED <<shutdown, shutdown_calls>>
    /\ UNCHANGED <<bridgeVars, taskVars, envVars, apiVars>>

\* cleanup_call, the done callback of the run_bot task
cleanup_call(c) ==
    /\ rb_pc[c] = "done"
    /\ ~cb_ran[c]
    /\ cb_ran' = [cb_ran EXCEPT ![c] = TRUE]
    /\ active_calls' = active_calls \ {c}
    /\ removals' = [removals EXCEPT ![c] = IF c \in active_calls THEN @ + 1 ELSE @]
    /\ UNCHANGED <<shutdown, shutdown_calls>>
    /\ UNCHANGED <<bridgeVars, taskVars, envVars, apiVars>>

\* health_check: the response to a health query made in the current state
\* (the handler reads active_calls and changes nothing)
health_check ==
    [status |-> "healthy",
     service |-> "mello-phone-agent",
     active_calls |-> Cardinality(active_calls)]

\* lifespan after `yield`: task.cancel() for every entry of active_calls, up
\* to `await whatsapp_client.terminate_all_calls()`
lifespan_cleanup ==
    /\ shutdown = "serving"
    /\ shutdown' = "terminating"
    /\ shutdown_calls' = active_calls
    /\ rb_cancel' = [c \in Calls |-> c \in active_calls /\ rb_pc[c] # "done"]
    /\ UNCHANGED <<rb_pc, rb_idx, task_pc, disconnected, webrtc, transport_out,
                   connect_failed>>
    /\ UNCHANGED <<active_calls, cb_ran, removals>>
    /\ UNCHANGED <<bridgeVars, envVars, apiVars>>

\* terminate_all_calls() returns; lifespan ends
lifespan_complete ==
    /\ shutdown = "terminating"
    /\ shutdown' = "complete"
    /\ UNCHANGED <<active_calls, cb_ran, removals, shutdown_calls>>
    /\ UNCHANGED <<bridgeVars, taskVars, envVars, apiVars>>

\* the steps of one call that need nothing from the remote session or the
\* media stream
CallStep(c) ==
    \/ connection_callback(c)
    \/ RunBotStart(c)
    \/ RunBotConnected(c)
    \/ RunBotConnectFailed(c)
    \/ RunBotCancelTasks(c)
    \/ RunBotDisconnected(c)
    \/ RunBotCancelled(c)
    \/ ProcessMessagesEnd(c)
    \/ ForwardWhatsappToHumeEnd(c)
    \/ ForwardHumeToWhatsappTimeout(c)
    \/ \E t \in TaskNames : TaskCancelled(c, t)
    \/ ClientDisconnects(c)
    \/ cleanup_call(c)

\* the steps of one call that the remote session or the media stream causes
TrafficStep(c) ==
    \/ ProcessMessage(c)
    \/ ForwardWhatsappToHume(c)
    \/ ForwardHumeToWhatsapp(c)
    \/ RemoteCloses(c)

\* one call with its traffic, from the webhook to the shutdown of the server
Next ==
    \/ CallStep(FirstCall)
    \/ TrafficStep(FirstCall)
    \/ lifespan_cleanup
    \/ lifespan_complete

Spec == Init /\ [][Next]_vars

\* The event loop runs every callback that is ready: a task that can take a
\* step takes it, a done callback runs, a timeout fires, and the close of a
\* session ends. Nothing makes the caller hang up, the remote side send an
\* event or answer the handshake, or the server shut down.
Fairness(c) ==
    /\ WF_vars(RunBotStart(c))
    /\ WF_vars(RunBotCancelTasks(c))
    /\ WF_vars(RunBotDisconnected(c))
    /\ WF_vars(RunBotCancelled(c))
    /\ WF_vars(ProcessMessagesEnd(c))
    /\ WF_vars(ForwardWhatsappToHumeEnd(c))
    /\ WF_vars(ForwardHumeToWhatsapp(c))
    /\ WF_vars(ForwardHumeToWhatsappTimeout(c))
    /\ \A t \in TaskNames : WF_vars(TaskCancelled(c, t))
    /\ WF_vars(cleanup_call(c))

FairSpec == Spec /\ Fairness(FirstCall) /\ WF_vars(lifespan_complete)

\* concurrent calls over a silent remote session and a silent media transport
NextServer ==
    \/ \E c \in Calls : CallStep(c)
    \/ lifespan_cleanup
    \/ lifespan_complete

SpecServer == Init /\ [][NextServer]_vars

\* two concurrent calls, each with its own HumeEVIHandler, whose remote
\* sessions deliver MaxPairEvents events between them
SecondCall ==
    CHOOSE c \in Calls \ {FirstCall} : \A d \in Calls \ {FirstCall} : c <= d
PairCalls == {FirstCall, SecondCall}

PairTraffic(c) ==
    \/ /\ n_events[FirstCall] + n_events[SecondCall] < MaxPairEvents
       /\ ProcessMessage(c)
    \/ ForwardHumeToWhatsapp(c)

NextPair ==
    \/ \E c \in PairCalls : CallStep(c)
    \/ \E c \in PairCalls : PairTraffic(c)
    \/ lifespan_cleanup
    \/ lifespan_complete

SpecPair == Init /\ [][NextPair]_vars

\* ------------------------------------------------------------- claims

IsPrefix(s, t) == Len(s) <= Len(t) /\ SubSeq(t, 1, Len(s)) = s

\* C1: the chunks that successive get_output_audio calls returned are a
\* prefix of the chunks the event loop put on the output queue, in the same
\* order, in every interleaving of the event loop and the outbound pump.
C1_OutputFifo ==
    \A c \in Calls : IsPrefix(dequeued[c], enqueued[c])

\* two chunks came out while a third one, put later, is still queued
C1_Witness ==
    /\ Len(dequeued[FirstCall]) = 2
    /\ Len(output_queue[FirstCall]) = 1
    /\ Len(enqueued[FirstCall]) = 3

\* C2: send_audio publishes to the session exactly when the bridge is Active;
\* before connect, during disconnect and after it, the call publishes nothing
\* and does not raise.
C2_SendOnlyWhenActive ==
    \A c \in Calls :
        /\ last_send[c].sent # <<>> <=> last_send[c].state = "Active"
        /\ last_send[c].state # "Active" => ~last_send[c].raised

\* a chunk was published while Active, the next one was dropped while
\* disconnect() was suspended in __aexit__
C2_Witness ==
    /\ published[ApiBridge] = 1
    /\ last_send[ApiBridge].state = "Disconnecting"
    /\ last_send[ApiBridge].sent = <<>>

\* C3: a disconnect() call on a bridge that is already Closed closes nothing:
\* it makes no further socket.__aexit__ call.
C3_DisconnectIdempotent ==
    [][\A c \in Calls :
          (conn_state[c] = "Closed" /\ disconnect_calls'[c] # disconnect_calls[c])
              => aexit_calls'[c] = aexit_calls[c]]_vars

AllTasksEnded(c) == \A t \in TaskNames : task_pc[c][t] \in {"none", "done"}

\* C4: once disconnect() has returned, no chunk is forwarded in either
\* direction: nothing more is published to the session and nothing more is
\* handed to transport.send_audio.
C4_NoForwardAfterDisconnect ==
    [][\A c \in Calls :
          conn_state[c] = "Closed"
              => /\ published'[c] = published[c]
                 /\ transport_out'[c] = transport_out[c]]_vars

\* C5: an Error event handled while the bridge is Active leads to the end of
\* the call while the caller is still on the line: the bridge is Closed, the
\* three tasks have ended and the call has left the registry.
C5_ErrorEndsCall ==
    \A c \in Calls :
        (error_seen[c] /\ conn_state[c] = "Active" /\ webrtc[c] = "connected")
            ~> (conn_state[c] = "Closed" /\ AllTasksEnded(c) /\ c \notin active_calls)

\* the calls that connection_callback registered and cleanup_call has not
\* seen yet
LiveCalls == {c \in Calls : rb_pc[c] # "unborn" /\ ~cb_ran[c]}

\* C6: the entry of a call is removed from active_calls exactly once, by the
\* done callback of its run_bot task and not before the task has ended, and
\* from then on a health query does not count the call.
C6_RegistryCleanup ==
    /\ \A c \in Calls :
          /\ removals[c] <= 1
          /\ cb_ran[c] => (removals[c] = 1 /\ c \notin active_calls)
          /\ (rb_pc[c] \notin {"unborn", "done"}) => c \in active_calls
    /\ health_check.active_calls = Cardinality(LiveCalls)

\* one call has ended and was removed while another one is still registered
C6_Witness ==
    \E c, d \in Calls :
        /\ cb_ran[c] /\ removals[c] = 1
        /\ rb_pc[d] = "waiting" /\ d \in active_calls
        /\ health_check.active_calls = 1

\* C7: when connect() fails the bridge never becomes Active, the registry
\* holds no entry for the call at any moment, and the media connection is
\* torn down once run_bot has ended.
C7_ConnectFailure ==
    \A c \in Calls :
        connect_failed[c] =>
            /\ conn_state[c] # "Active"
            /\ c \notin active_calls
            /\ rb_pc[c] = "done" => webrtc[c] = "disconnected"

\* C8: when the shutdown cleanup of lifespan has finished with two or more
\* calls in the registry, every bridge of these calls is Closed and every
\* one of the calls has left the registry.
C8_ShutdownClosesAll ==
    (shutdown = "complete" /\ Cardinality(shutdown_calls) >= 2)
        => \A c \in shutdown_calls :
               /\ conn_state[c] \in {"NoBridge", "Closed"}
               /\ c \notin active_calls

\* C9: disconnect() is called at most once on a bridge, and exactly once by
\* the time run_bot has ended, on every path that ends the call.
C9_DisconnectOnce ==
    \A c \in Calls :
        /\ disconnect_calls[c] <= 1
        /\ (rb_pc[c] = "done" /\ conn_state[c] # "NoBridge") => disconnect_calls[c] = 1

\* run_bot was cancelled while waiting for the caller to hang up (the event
\* `disconnected` was never set) and has ended after one disconnect()
C9_Witness ==
    /\ rb_pc[FirstCall] = "done"
    /\ socket[FirstCall] # "None"
    /\ ~disconnected[FirstCall]
    /\ FirstCall \in shutdown_calls
    /\ disconnect_calls[FirstCall] = 1

\* C10: once disconnect() has completed, none of the three tasks of the call
\* is still running.
C10_NoTaskOutlivesClosed ==
    \A c \in Calls : conn_state[c] = "Closed" => AllTasksEnded(c)

\* C11: connect() on a bridge that is not Idle (already connected, or Closed)
\* opens no further session and does not set the running flag again, and a
\* Closed bridge never becomes Active.
C11_ConnectOnlyFromIdle ==
    [][\A c \in Calls :
          /\ conn_state[c] \notin {"NoBridge", "Idle"} =>
                 /\ sessions_opened'[c] = sessions_opened[c]
                 /\ (running'[c] => running[c])
          /\ conn_state[c] = "Closed" => conn_state'[c] # "Active"]_vars

\* C12: a call of get_output_audio either returns the chunk at the head of
\* the output queue and removes exactly that chunk, or it times out on an
\* empty queue, returns None and leaves the queue as it was.
C12_GetOutputAudio ==
    [][\A c \in Calls :
          /\ dequeued'[c] # dequeued[c] =>
                 /\ output_queue[c] # <<>>
                 /\ dequeued'[c] = Append(dequeued[c], Head(output_queue[c]))
                 /\ output_queue'[c] = Tail(output_queue[c])
          /\ output_queue'[c] # output_queue[c] =>
                 \/ dequeued'[c] # dequeued[c]
                 \/ enqueued'[c] # enqueued[c]
          /\ (c = ApiBridge /\ api_result' = "None" /\ api_result # "None") =>
                 /\ output_queue[c] = <<>>
                 /\ output_queue'[c] = output_queue[c]
                 /\ dequeued'[c] = dequeued[c]
          /\ (c = ApiBridge /\ api_result' = "chunk" /\ api_result # "chunk") =>
                 dequeued'[c] # dequeued[c]]_vars

\* a chunk was returned, and the next call timed out on the empty queue
C12_Witness ==
    /\ api_result = "None"
    /\ Len(dequeued[ApiBridge]) >= 1
    /\ output_queue[ApiBridge] = <<>>

\* C13: every disconnect() that reaches its end returns normally, with no
\* exception leaving it, and leaves the bridge Closed with the running flag
\* false, also when socket.__aexit__ raised.
C13_DisconnectSwallowsErrors ==
    [][\A c \in Calls :
          (conn_state[c] = "Disconnecting" /\ conn_state'[c] # "Disconnecting") =>
              /\ conn_state'[c] = "Closed"
              /\ ~running'[c]
              /\ ~disconnect_raised'[c]]_vars

\* C14: when one of the three tasks of a call has ended on its own while
\* run_bot is still waiting for the caller, who is on the line, to hang up,
\* the call is taken down: eventually the bridge is Closed and the call has left the registry.
C14_TaskEndEndsCall ==
    \A c \in Calls :
        (/\ rb_pc[c] = "waiting"
         /\ webrtc[c] = "connected"
         /\ \E t \in TaskNames : task_pc[c][t] = "done")
            ~> (conn_state[c] = "Closed" /\ c \notin active_calls)

\* C15: when process_messages leaves its loop, by exhaustion of the session's
\* stream or otherwise, the running flag is false at the moment it returns.
C15_EventLoopClearsRunning ==
    [][\A c \in Calls :
          (task_pc[c]["hume_messages"] = "wait" /\
           task_pc'[c]["hume_messages"] = "done") => ~running'[c]]_vars

\* C16: the remote session of a call is closed by disconnect() alone, called
\* by run_bot: no step of the event loop or of a pump calls socket.__aexit__,
\* and the session of a call is closed at most once.
C16_OnlyDisconnectCloses ==
    [][\A c \in Calls :
          aexit_calls'[c] # aexit_calls[c] =>
              /\ aexit_calls[c] = 0
              /\ disconnect_calls'[c] = disconnect_calls[c] + 1
              /\ rb_pc'[c] = "disconnecting"
              /\ task_pc'[c] = task_pc[c]]_vars

\* the event loop handled an error event and ended, and the session was
\* closed once, by the disconnect() of run_bot
C16_Witness ==
    /\ error_seen[FirstCall]
    /\ rb_pc[FirstCall] = "done"
    /\ conn_state[FirstCall] = "Closed"
    /\ aexit_calls[FirstCall] = 1

\* C17: once disconnect() has cleared the running flag, process_messages
\* hands no further event to _handle_message.
C17_NoEventAfterRunningCleared ==
    [][\A c \in Calls :
          (conn_state[c] \in {"Disconnecting", "Closed"} /\ ~running[c]) =>
              n_events'[c] = n_events[c]]_vars

\* C18: once disconnect() has cleared the running flag, the inbound pump
\* pulls no further frame from the media transport.
C18_InboundPumpStopsOnFlag ==
    [][\A c \in Calls :
          (conn_state[c] \in {"Disconnecting", "Closed"} /\ ~running[c]) =>
              n_frames'[c] = n_frames[c]]_vars

\* C19: once disconnect() has cleared the running flag, the outbound pump
\* ends with the first poll of the output queue that completes, whether the
\* poll returned a chunk or timed out on an empty queue, and so it always
\* ends (stated for the call that FairSpec runs).
C19_OutboundPumpStops ==
    /\ [][\A c \in Calls :
             (/\ conn_state[c] \in {"Disconnecting", "Closed"}
              /\ ~running[c]
              /\ task_pc[c]["hume_to_wa"] = "wait"
              /\ dequeued'[c] # dequeued[c]) =>
                 task_pc'[c]["hume_to_wa"] = "done"]_vars
    /\ (conn_state[FirstCall] \in {"Disconnecting", "Closed"} /\ ~running[FirstCall])
          ~> (task_pc[FirstCall]["hume_to_wa"] \in {"none", "done"})

\* run_bot was cancelled from outside, so no task was cancelled; the outbound
\* pump polled the empty queue once more, found the flag cleared and returned
C19_Witness ==
    /\ FirstCall \in shutdown_calls
    /\ ~disconnected[FirstCall]
    /\ ~running[FirstCall]
    /\ conn_state[FirstCall] \in {"Disconnecting", "Closed"}
    /\ output_queue[FirstCall] = <<>>
    /\ dequeued[FirstCall] = enqueued[FirstCall]
    /\ task_pc[FirstCall]["hume_to_wa"] = "done"

\* C20: a call whose bridge was created leaves the registry only after its
\* disconnect() has run to its end: when cleanup_call has removed the call,
\* the bridge is Closed, never still inside disconnect() and never before it.
C20_DisconnectBeforeRemoval ==
    \A c \in Calls :
        (cb_ran[c] /\ conn_state[c] # "NoBridge") => conn_state[c] = "Closed"

\* C21: _handle_message changes the output queue for an audio_output event
\* with data alone, to which it appends that event's decoded chunk; a
\* chat_metadata, user_message, assistant_message, user_interruption or error
\* event leaves the queue exactly as it was.
C21_OnlyAudioOutputBuffers ==
    [][n_events'[ApiBridge] # n_events[ApiBridge] =>
          IF api_event'.type = "audio_output" /\ api_event'.data # <<>>
          THEN output_queue'[ApiBridge] =
                   Append(output_queue[ApiBridge], b64decode(api_event'.data))
          ELSE output_queue'[ApiBridge] = output_queue[ApiBridge]]_vars

\* a user_interruption was handled while a chunk was waiting in the queue
C21_Witness ==
    /\ api_event.type = "user_interruption"
    /\ output_queue[ApiBridge] # <<>>

\* an error event was handled while a chunk was waiting in the queue
C21_WitnessError ==
    /\ api_event.type = "error"
    /\ error_seen[ApiBridge]
    /\ output_queue[ApiBridge] # <<>>

\* C22: a cancelled task of a call ends without raising into run_bot, so
\* the cancel-and-await loop of run_bot, once it has begun, leaves only for
\* disconnect() with all three tasks ended, and it always gets there (stated
\* for the call that FairSpec runs).
C22_CancelLoopReachesDisconnect ==
    /\ [][\A c \in Calls :
             (rb_pc[c] = "await_task" /\ rb_pc'[c] # "await_task") =>
                 /\ rb_pc'[c] = "disconnecting"
                 /\ disconnect_calls'[c] = disconnect_calls[c] + 1
                 /\ \A t \in TaskNames : task_pc'[c][t] = "done"]_vars
    /\ (rb_pc[FirstCall] = "await_task")
          ~> (AllTasksEnded(FirstCall) /\ disconnect_calls[FirstCall] = 1)

\* the caller hung up, the server kept serving, the outbound pump (which
\* never ends on its own while the flag is set) was cancelled, and run_bot
\* has been through disconnect()
C22_Witness ==
    /\ disconnected[FirstCall]
    /\ shutdown = "serving"
    /\ AllTasksEnded(FirstCall)
    /\ task_pc[FirstCall]["hume_to_wa"] = "done"
    /\ disconnect_calls[FirstCall] = 1
    /\ rb_pc[FirstCall] = "done"

\* the place of an emotion name in the iteration order of the scores
PosOf(name) == CHOOSE i \in 1..Len(EmotionNames) : EmotionNames[i] = name

\* C23: for every dict of scores, the top emotions are min(3, size) distinct
\* emotions of the dict, in descending order of score; no emotion left out
\* has a higher score than one that was taken, and emotions of equal score
\* are taken, and listed, in their original iteration order.
C23_TopEmotions ==
    top_emotions.by # "none" =>
        LET scores == emotion_scores
            top == top_emotions.top
            taken == {PosOf(top[k].name) : k \in 1..Len(top)}
            size == Len(scores)
        IN /\ Len(top) = IF size < 3 THEN size ELSE 3
           /\ taken \subseteq 1..size
           /\ Cardinality(taken) = Len(top)
           /\ \A k \in 1..Len(top) :
                 top[k].score = IF top_emotions.by = "extract_top_emotions"
                                THEN round2(scores[PosOf(top[k].name)])
                                ELSE scores[PosOf(top[k].name)]
           /\ \A k, l \in 1..Len(top) :
                 k < l =>
                     /\ top[k].score >= top[l].score
                     /\ scores[PosOf(top[k].name)] >= scores[PosOf(top[l].name)]
                     /\ scores[PosOf(top[k].name)] = scores[PosOf(top[l].name)]
                            => PosOf(top[k].name) < PosOf(top[l].name)
           /\ \A i \in taken, o \in (1..size) \ taken :
                 /\ scores[o] <= scores[i]
                 /\ scores[o] = scores[i] => i < o

\* the scores {joy 0.9, calm 0.4, anger 0.1, sadness 0.3} gave joy, calm,
\* sadness
C23_Witness ==
    /\ emotion_scores = <<900, 400, 100, 300>>
    /\ top_emotions.by # "none"
    /\ [k \in 1..Len(top_emotions.top) |-> top_emotions.top[k].name]
           = <<"joy", "calm", "sadness">>

\* four emotions of equal score gave the first three of them, in their
\* iteration order
C23_WitnessTies ==
    /\ emotion_scores = <<300, 300, 300, 300>>
    /\ top_emotions.by = "handle_message"
    /\ [k \in 1..Len(top_emotions.top) |-> top_emotions.top[k].name]
           = <<"joy", "calm", "anger">>

\* everything the program holds for one call: its handler, its run_bot and
\* tasks, its transport and its place in the registry
CallState(c) ==
    <<socket[c], running[c], output_queue[c], published[c], aexit_calls[c],
      disconnect_calls[c], conn_state[c], enqueued[c], dequeued[c],
      error_seen[c], last_send[c], rb_pc[c], rb_idx[c], rb_cancel[c],
      task_pc[c], disconnected[c], webrtc[c], transport_out[c],
      connect_failed[c], c \in active_calls, cb_ran[c], removals[c],
      n_events[c], n_frames[c]>>

\* C24: a step of one call (its arrival, a step of its run_bot or tasks, a
\* failure or the end of its bridge, its cleanup) leaves the registry entry,
\* the running flag, the session and the output queue of every other call, and
\* everything else of that call, as they were. The one step that touches
\* several calls is the server's shutdown.
C24_CallIsolation ==
    [][shutdown' = shutdown =>
          \A c, d \in Calls :
              (c # d /\ CallState(c)' # CallState(c)) =>
                  CallState(d)' = CallState(d)]_vars

\* the first call failed to connect and has left the registry; the second
\* call, which ran beside it, is registered and running with a chunk queued
C24_Witness ==
    /\ connect_failed[FirstCall]
    /\ cb_ran[FirstCall]
    /\ FirstCall \notin active_calls
    /\ SecondCall \in active_calls
    /\ running[SecondCall]
    /\ output_queue[SecondCall] # <<>>

\* C25: in every reachable state, a handler whose running flag is true has
\* its session handle set; the three tasks of a call exist only once
\* connect() has returned with a session; and the event loop has taken events
\* only from a handler whose session handle is set.
C25_RunningImpliesSession ==
    \A c \in Calls :
        /\ running[c] => socket[c] # "None"
        /\ (\E t \in TaskNames : task_pc[c][t] # "none") =>
               /\ socket[c] # "None"
               /\ sessions_opened[c] >= 1
               /\ ~connect_failed[c]
        /\ n_events[c] > 0 => socket[c] # "None"

\* connect() has returned, the tasks exist, and the event loop has taken an
\* event from the session
C25_Witness ==
    /\ running[FirstCall]
    /\ socket[FirstCall] = "open"
    /\ \A t \in TaskNames : task_pc[FirstCall][t] = "wait"
    /\ n_events[FirstCall] >= 1

\* connect() has raised: no session, no flag, no task
C25_WitnessFailed ==
    /\ connect_failed[FirstCall]
    /\ socket[FirstCall] = "None"
    /\ ~running[FirstCall]
    /\ \A t \in TaskNames : task_pc[FirstCall][t] = "none"

====
